---- MODULE Spec2Model ----
(***************************************************************************)
(* ankibot: a Telegram bot that translates a word with an analysis         *)
(* service, caches the result under a uuid token (cachetools.TTLCache),    *)
(* and on an "add" button materializes it as Anki cards through an         *)
(* AnkiSession (login, download, add cards, sync, cleanup).                *)
(*                                                                         *)
(* Text is modelled as sequences of one-character strings, so that         *)
(* counting, UTF-8 length, find(":") and slicing are computed as the code  *)
(* computes them.                                                          *)
(***************************************************************************)
EXTENDS Integers, Sequences, FiniteSets, TLC

VARIABLES
    now,        \* reading of the cache's timer (time.monotonic), in ticks
    cache,      \* the module-level TTLCache of bot.py
    issued,     \* uuid4 values drawn so far
    files,      \* names of the files present in the temp directory
    pc,         \* position of the activation in flight ("idle" when none)
    act,        \* the activation in flight: its inputs and locals
    sess,       \* the AnkiSession of the activation in flight
    log,        \* calls made by the current / last activation, in order
    sent,       \* messages sent to the chat by the current / last activation
    input,      \* request text drawn for the validation specification
    th,         \* worker threads of the threaded specification
    hist        \* history of the cache's use: when each key was inserted, the
                \* keys in the order of their last use, the keys evicted for capacity

vars == <<now, cache, issued, files, pc, act, sess, log, sent, input, th, hist>>

(***************************************************************************)
(* Bounds of the model.  CACHE_MAX_SIZE and CACHE_TTL_SECONDS are the      *)
(* constants of bot.py lines 17-18 (128 entries, 86400 seconds), scaled so *)
(* that a full cache and an expired entry are reached within the bounds.   *)
(***************************************************************************)
CACHE_MAX_SIZE == 2
CACHE_TTL_SECONDS == 2
MaxTime == 3
MaxTokens == 3
MaxPaths == 2

\* Program constants kept at their value.
MAX_REQUEST_SPACES == 4
MAX_REQUEST_BYTES == 58

\* a command name of one character more
CALLBACK_RETRY_LONG == <<"r", "e", "t", "r", "y", "2">>

CALLBACK_RETRY == <<"r", "e", "t", "r", "y">>
CALLBACK_ADD_TO_ANKI == <<"a", "d", "d", "_", "a", "n", "k", "i">>

(***************************************************************************)
(* Characters and the str methods the code uses.                           *)
(***************************************************************************)
AsciiLetters == {"a", "b", "c", "d", "e", "g", "n", "o", "u", "H", "D"}
WideLetters == {"A2"}          \* a letter of two UTF-8 bytes, such as a-umlaut
Digits == {"0", "1", "2", "3", "4", "5", "6", "7", "8", "9"}
WideSymbols == {"E3"}          \* a symbol of three UTF-8 bytes, such as the euro sign
\* a numeric character that is neither a letter nor a digit, of two UTF-8 bytes,
\* such as the vulgar fraction one half ("N2")
NumericOnly == {"N2"}
\* the characters * _ ` [ ] < > & ("BT" stands for the backtick)
SanitizedChars == {"*", "_", "BT", "[", "]", "<", ">", "&"}
Whitespace == {" ", "NL"}      \* "NL" stands for a line break

\* len(c.encode("utf-8"))
Utf8Len(c) ==
    IF c \in WideLetters \cup NumericOnly THEN 2 ELSE IF c \in WideSymbols THEN 3 ELSE 1

\* c.isalnum(): c.isalpha() or c.isdecimal() or c.isdigit() or c.isnumeric()
isalnum(c) == c \in AsciiLetters \cup WideLetters \cup Digits \cup NumericOnly

\* s.count(c)
count(s, c) == Cardinality({i \in DOMAIN s : s[i] = c})

RECURSIVE encoded_len(_)
\* len(s.encode("utf-8"))
encoded_len(s) == IF s = <<>> THEN 0 ELSE Utf8Len(Head(s)) + encoded_len(Tail(s))

\* s.find(c): the first index (0-based) of c in s, -1 when absent
find(s, c) ==
    IF \E i \in DOMAIN s : s[i] = c
    THEN (CHOOSE i \in DOMAIN s : s[i] = c /\ \A j \in 1..(i - 1) : s[j] # c) - 1
    ELSE -1

\* s[lo:hi] with 0-based bounds, 0 <= lo
slice(s, lo, hi) == IF hi <= lo THEN <<>> ELSE SubSeq(s, lo + 1, hi)

\* s.strip(): without leading and trailing whitespace
strip(s) ==
    LET keep == {i \in DOMAIN s : s[i] \notin Whitespace}
    IN IF keep = {} THEN <<>>
       ELSE SubSeq(s, CHOOSE i \in keep : \A j \in keep : i <= j,
                      CHOOSE i \in keep : \A j \in keep : j <= i)

\* s without the characters of drop, in order
RECURSIVE remove_chars(_, _)
remove_chars(s, drop) ==
    IF s = <<>> THEN <<>>
    ELSE IF Head(s) \in drop THEN remove_chars(Tail(s), drop)
         ELSE <<Head(s)>> \o remove_chars(Tail(s), drop)

\* translation._sanitize: text.translate(str.maketrans(..)), deleting SanitizedChars
sanitize(text) == remove_chars(text, SanitizedChars)

\* n copies of c
Repeat(c, n) == [i \in 1..n |-> c]

(***************************************************************************)
(* translate's validation of the request (bot.py lines 114-118).           *)
(***************************************************************************)
\* a validation that already rejects MAX_REQUEST_SPACES spaces
RequestRejectedMut(request) ==
    \/ count(request, " ") >= MAX_REQUEST_SPACES
    \/ encoded_len(request) > MAX_REQUEST_BYTES
    \/ ~ \A i \in DOMAIN request : isalnum(request[i]) \/ request[i] \in {" ", "'", "-"}

\* the condition of lines 114-118
RequestRejected(request) ==
    \/ count(request, " ") > MAX_REQUEST_SPACES
    \/ encoded_len(request) > MAX_REQUEST_BYTES
    \/ ~ \A i \in DOMAIN request : isalnum(request[i]) \/ request[i] \in {" ", "'", "-"}

(***************************************************************************)
(* cachetools.TTLCache as bot.py uses it: cache = TTLCache(maxsize, ttl),  *)
(* cache[key] = value and cache.get(key).  The cache is a record           *)
(*   data     : key -> value            (Cache.__data)                     *)
(*   links    : keys, least recently used first  (TTLCache.__links)        *)
(*   expires  : key -> time of expiry   (the links' expires fields)        *)
(*   currsize : the size accounting     (Cache.__currsize)                 *)
(* Every value has size 1.  Time is the reading of the cache's timer.      *)
(***************************************************************************)
EmptyFn == [k \in {} |-> 0]

SetAt(f, k, v) == [x \in DOMAIN f \cup {k} |-> IF x = k THEN v ELSE f[x]]

DelAt(f, k) == [x \in DOMAIN f \ {k} |-> f[x]]

\* the elements of seq that satisfy keep, in order
RECURSIVE SelectIn(_, _)
SelectIn(seq, keep) ==
    IF seq = <<>> THEN <<>>
    ELSE IF Head(seq) \in keep THEN <<Head(seq)>> \o SelectIn(Tail(seq), keep)
         ELSE SelectIn(Tail(seq), keep)

Elems(seq) == {seq[i] : i \in DOMAIN seq}

\* OrderedDict.move_to_end(key), and the insertion of a new key at the end
MoveToEnd(seq, key) == SelectIn(seq, Elems(seq) \ {key}) \o <<key>>

\* cache = TTLCache(maxsize=CACHE_MAX_SIZE, ttl=CACHE_TTL_SECONDS)
NewCache == [data |-> EmptyFn, links |-> <<>>, expires |-> EmptyFn, currsize |-> 0]

\* an item is still there at its time of expiry
is_expired_after(expires, time) == expires < time

\* the test of TTLCache.expire, __contains__ and __getitem__: not (time < link.expires)
is_expired(expires, time) == ~(time < expires)

\* the keys whose time to live is over at `time`
Expired(c, time) == {k \in DOMAIN c.expires : is_expired(c.expires[k], time)}

\* TTLCache.expire(time): delete every expired item
expire(c, time) ==
    LET dead == Expired(c, time)
        live == DOMAIN c.expires \ dead
    IN [data     |-> [k \in DOMAIN c.data \ dead |-> c.data[k]],
        links    |-> SelectIn(c.links, Elems(c.links) \ dead),
        expires  |-> [k \in live |-> c.expires[k]],
        currsize |-> c.currsize - Cardinality(dead \cap DOMAIN c.data)]

\* TTLCache.__delitem__(key) of a key that is present
delitem(c, key) ==
    [data     |-> DelAt(c.data, key),
     links    |-> SelectIn(c.links, Elems(c.links) \ {key}),
     expires  |-> DelAt(c.expires, key),
     currsize |-> c.currsize - 1]

\* a popitem that takes the key inserted first (the one that expires first)
popitem_key_fifo(c) ==
    CHOOSE k \in DOMAIN c.expires : \A j \in DOMAIN c.expires : c.expires[k] <= c.expires[j]

\* the key TTLCache.popitem takes: next(iter(self.__links)), the least recently used
popitem_key(c) == Head(c.links)

\* TTLCache.popitem(): expire, then remove the least recently used item
popitem(c, time) ==
    LET c1 == expire(c, time)
    IN IF c1.links = <<>> THEN c1 ELSE delitem(c1, popitem_key(c1))

\* the loop of Cache.__setitem__: while currsize + size > maxsize: popitem()
RECURSIVE make_room(_, _)
make_room(c, time) ==
    IF c.currsize + 1 > CACHE_MAX_SIZE /\ c.links # <<>>
    THEN make_room(popitem(c, time), time)
    ELSE c

\* Cache.__setitem__(key, value)
cache_setitem(c, key, value, time) ==
    LET c1 == IF key \notin DOMAIN c.data THEN make_room(c, time) ELSE c
        diffsize == IF key \in DOMAIN c1.data THEN 0 ELSE 1
    IN [c1 EXCEPT !.data = SetAt(c1.data, key, value),
                  !.currsize = c1.currsize + diffsize]

\* TTLCache.__setitem__(key, value): cache[key] = value at time `time`
setitem(c, key, value, time) ==
    LET c1 == cache_setitem(expire(c, time), key, value, time)
    IN [c1 EXCEPT !.links = MoveToEnd(c1.links, key),
                  !.expires = SetAt(c1.expires, key, time + CACHE_TTL_SECONDS)]

\* TTLCache.__contains__(key): key in cache
contains(c, key, time) == key \in DOMAIN c.expires /\ ~is_expired(c.expires[key], time)

\* a __getitem__ that leaves the order of __links alone
getitem_touch_none(c, key) == c

\* what TTLCache.__getitem__ does to the cache: __getlink moves the key to the
\* most recently used end of __links
getitem_touch(c, key) ==
    IF key \in Elems(c.links) THEN [c EXCEPT !.links = MoveToEnd(c.links, key)] ELSE c

\* a lookup that also deletes the expired items, as an insertion does
get_expiring(c, key, time) ==
    IF contains(c, key, time) /\ key \in DOMAIN c.data
    THEN [cache |-> getitem_touch(c, key), hit |-> TRUE, value |-> c.data[key]]
    ELSE [cache |-> expire(c, time), hit |-> FALSE, value |-> EmptyFn]

\* Cache.get(key): if key in self: return self[key], else None.
\* The result is the cache after the call, whether a value was found, and the value.
\* Both readings of the timer (in __contains__ and in __getitem__) give `time`; the
\* threaded specification reads the timer at each of the two steps.
get(c, key, time) ==
    IF contains(c, key, time) /\ key \in DOMAIN c.data
    THEN [cache |-> getitem_touch(c, key), hit |-> TRUE, value |-> c.data[key]]
    ELSE [cache |-> c, hit |-> FALSE, value |-> EmptyFn]

\* the keys a lookup at `time` finds
Live(c, time) == {k \in DOMAIN c.data : contains(c, k, time)}

(***************************************************************************)
(* Configuration (config.py): CONFIG.users maps a Telegram id to a profile.*)
(***************************************************************************)
Users == {1}                   \* the keys of CONFIG.users
Ids == {1, 2}                  \* Telegram ids; 2 has no profile

\* a test that only asks for a sender
authorized_any(id) == id # 0

\* the authentication of both handlers: the sender (of a message) or the chat (of a
\* control's message) is there (0: None) and is a key of CONFIG.users
authorized(id) == id # 0 /\ id \in Users

\* CONFIG.users[chat_id]
UserConfig(chat_id) ==
    [anki_sync_server |-> "server", anki_user |-> "user", anki_password |-> "password",
     anki_deck |-> "German"]

(***************************************************************************)
(* translation.py: the analysis response and its validation.               *)
(***************************************************************************)
NoVerbForms == [present |-> FALSE, praeteritum |-> <<>>, perfekt |-> <<>>]

\* article and plural: None is the empty text (the code only tests their truth)
CtxHund ==
    [text |-> <<"H", "u", "n", "d">>, type |-> <<"n">>, label |-> <<"a">>,
     article |-> <<"d", "e", "r">>, plural |-> <<"H", "u", "n", "d", "e">>,
     verb_forms |-> NoVerbForms, translations |-> << <<"d", "o", "g">> >>,
     example |-> <<"D", "e", "r", " ", "H", "u", "n", "d">>]

CtxMarkup ==
    [text |-> <<"<", "b", ">", "*", "b", "a", "d", "*", "<", "/", "b", ">">>,
     type |-> <<"n">>, label |-> <<"_", "a">>, article |-> <<>>, plural |-> <<>>,
     verb_forms |-> [present |-> TRUE, praeteritum |-> <<"[", "a", "]">>, perfekt |-> <<"b">>],
     translations |-> << <<"b", "&", "a", "d">>, <<"c">> >>, example |-> <<"BT", "e">>]

CtxOnlyStripped == [CtxHund EXCEPT !.label = <<"*", "*">>]

CtxBlank == [CtxHund EXCEPT !.example = <<" ", "NL">>]

CtxNoTranslations == [CtxHund EXCEPT !.translations = <<>>]

CtxBlankTranslation == [CtxHund EXCEPT !.translations = << <<"d">>, <<" ">> >>]

\* TranslationContext.validate_non_empty_str: rejects v when not v or not v.strip()
validate_non_empty_str(v) == v # <<>> /\ strip(v) # <<>>

\* TranslationContext.validate_non_empty_list
validate_non_empty_list(v) ==
    /\ v # <<>>
    /\ \A i \in DOMAIN v : v[i] # <<>> /\ strip(v[i]) # <<>>

\* AiTranslatorResponse.model_validate_json accepts the contexts
model_validate(contexts) ==
    \A i \in DOMAIN contexts :
        /\ validate_non_empty_str(contexts[i].text)
        /\ validate_non_empty_str(contexts[i].type)
        /\ validate_non_empty_str(contexts[i].label)
        /\ validate_non_empty_str(contexts[i].example)
        /\ validate_non_empty_list(contexts[i].translations)

\* the sanitizing loop of translate_ai, for one context
sanitize_context(ctx) ==
    [text |-> sanitize(ctx.text), type |-> sanitize(ctx.type),
     label |-> sanitize(ctx.label), example |-> sanitize(ctx.example),
     translations |-> [i \in DOMAIN ctx.translations |-> sanitize(ctx.translations[i])],
     article |-> IF ctx.article # <<>> THEN sanitize(ctx.article) ELSE ctx.article,
     plural |-> IF ctx.plural # <<>> THEN sanitize(ctx.plural) ELSE ctx.plural,
     verb_forms |->
        IF ctx.verb_forms.present
        THEN [present |-> TRUE, praeteritum |-> sanitize(ctx.verb_forms.praeteritum),
              perfekt |-> sanitize(ctx.verb_forms.perfekt)]
        ELSE ctx.verb_forms]

\* What openai_completion gives translate_ai: it raises (kind "error"), or returns
\* text that is not the JSON asked for (kind "malformed"), or returns contexts.
Completion(contexts) == [kind |-> "json", contexts |-> contexts]

CompletionError == [kind |-> "error", contexts |-> <<>>]

CompletionMalformed == [kind |-> "malformed", contexts |-> <<>>]

\* a translate_ai that parses the response without validating its fields
translate_ai_unvalidated(request, completion) ==
    IF completion.kind = "json"
    THEN [raised |-> FALSE,
          translation |->
              [request |-> request,
               contexts |-> [i \in DOMAIN completion.contexts |->
                                sanitize_context(completion.contexts[i])]]]
    ELSE [raised |-> TRUE, translation |-> EmptyFn]

\* translate_ai(request) on a completion: whether it raises, and the Translation
translate_ai(request, completion) ==
    IF completion.kind = "json" /\ model_validate(completion.contexts)
    THEN [raised |-> FALSE,
          translation |->
              [request |-> request,
               contexts |-> [i \in DOMAIN completion.contexts |->
                                sanitize_context(completion.contexts[i])]]]
    ELSE [raised |-> TRUE, translation |-> EmptyFn]

(***************************************************************************)
(* uuid.uuid4 and its text.  A uuid is modelled by its number; uuid4 is    *)
(* taken to return a value that was not returned before.                   *)
(***************************************************************************)
DigitChar(k) == CASE k = 0 -> "0" [] k = 1 -> "1" [] k = 2 -> "2" [] k = 3 -> "3" [] k = 4 -> "4"
                  [] k = 5 -> "5" [] k = 6 -> "6" [] k = 7 -> "7" [] k = 8 -> "8" [] OTHER -> "9"

\* str(uuid): 36 characters, hexadecimal digits in groups of 8-4-4-4-12
UuidStr(k) ==
    Repeat("0", 8) \o <<"-">> \o Repeat("0", 4) \o <<"-">> \o Repeat("0", 4) \o <<"-">>
    \o Repeat("0", 4) \o <<"-">> \o Repeat("0", 10) \o <<DigitChar(k \div 10), DigitChar(k % 10)>>

\* a generator that returns the same value again
uuid4_repeating(iss) == 1

\* uuid.uuid4(): a value not drawn before
uuid4(iss) == CHOOSE k \in 1..MaxTokens : k \notin iss /\ \A j \in 1..(k - 1) : j \in iss

(***************************************************************************)
(* Messages the bot sends (bot.send_message): the chat, the fixed first    *)
(* line of the text, what is formatted into it, and the inline keyboard.   *)
(***************************************************************************)
MSG_REJECTED == "Are you kidding me? Go to Google Translate or smth."
MSG_TRANSLATION_FAILED == "Oh no! Error happened!"
MSG_TRANSLATION == "Translation for *{request}*"
MSG_STALE == "Translation is stale, try another one or retry this one"
MSG_START == "Yeah sure let's go"
MSG_SORRY == "Sorry what?"
MSG_ADDED == "Added {cards_added} Anki cards for *{request}*"
MSG_LOGIN_FAILED == "Oh no! Could not authenticate with Anki sync server!"
MSG_DOWNLOAD_FAILED == "Oh no! Could not download Anki collection!"
MSG_UPLOAD_FAILED == "Oh no! Could not sync Anki collection back to the server! Cards may have been added locally but not synced."
MSG_UNEXPECTED == "Oh no! Unexpected error!"

Msg(chat_id, text, detail, markup) ==
    [chat_id |-> chat_id, text |-> text, detail |-> detail, markup |-> markup]

Call(name, ok) == [call |-> name, ok |-> ok]

\* callback_data=f"{CALLBACK_ADD_TO_ANKI}:{translation_id}"
AddPayload(translation_id) == CALLBACK_ADD_TO_ANKI \o <<":">> \o translation_id

\* a retry payload that carries the request without its outer whitespace
RetryPayloadStripped(request) == CALLBACK_RETRY \o <<":">> \o strip(request)

\* callback_data=f"{CALLBACK_RETRY}:{request}"
RetryPayload(request) == CALLBACK_RETRY \o <<":">> \o request

\* the InlineKeyboardMarkup translate builds (bot.py lines 141-153)
Markup(chat_id, translation_id, request) ==
    << [text |-> "Add translations to Anki deck", deck |-> UserConfig(chat_id).anki_deck,
        callback_data |-> AddPayload(translation_id)],
       [text |-> "Retry translation", deck |-> "",
        callback_data |-> RetryPayload(request)] >>

(***************************************************************************)
(* translate(chat_id, request), bot.py lines 111-160, as a function of the *)
(* state it reads and writes: st = [cache, issued, log, sent, raised].     *)
(* `completion` is what the analysis service answers, `time` the timer.    *)
(***************************************************************************)
translate(chat_id, request, completion, st, time) ==
    IF RequestRejected(request)
    THEN [st EXCEPT !.sent = Append(@, Msg(chat_id, MSG_REJECTED, <<>>, <<>>)),
                    !.log = Append(@, Call("send_message", TRUE))]
    ELSE
      LET r == translate_ai(request, completion)
      IN IF r.raised
         THEN [st EXCEPT
                 !.sent = Append(@, Msg(chat_id, MSG_TRANSLATION_FAILED, <<>>, <<>>)),
                 !.log = @ \o <<Call("translate_ai", FALSE), Call("send_message", TRUE)>>]
         ELSE
           LET k == uuid4(st.issued)
               translation_id == UuidStr(k)
               stored == [st EXCEPT
                   !.cache = setitem(st.cache, translation_id, r.translation, time),
                   !.issued = @ \cup {k},
                   !.put = translation_id,
                   !.value = r.translation,
                   !.log = @ \o <<Call("translate_ai", TRUE), Call("uuid4", TRUE),
                                  Call("cache_setitem", TRUE)>>]
           IN IF chat_id \notin Users
              THEN \* CONFIG.users[chat_id] raises KeyError (line 144)
                   [stored EXCEPT !.raised = "KeyError"]
              ELSE [stored EXCEPT
                      !.sent = Append(@, Msg(chat_id, MSG_TRANSLATION, r.translation,
                                             Markup(chat_id, translation_id, request))),
                      !.log = Append(@, Call("send_message", TRUE))]

\* translate can run within the bounds: a uuid is left when it needs one
CanTranslate(request, completion) ==
    \/ RequestRejected(request)
    \/ translate_ai(request, completion).raised
    \/ issued # 1..MaxTokens

\* the state translate starts from in a fresh activation
Fresh == [cache |-> cache, issued |-> issued, log |-> <<>>, sent |-> <<>>, raised |-> "None",
          put |-> <<>>, hit |-> <<>>, value |-> EmptyFn]

NoAct == [kind |-> "none", from_user |-> 0, chat_id |-> 0, request |-> <<>>, data |-> <<>>,
          translation_id |-> <<>>, translation |-> EmptyFn, idx |-> 0, cards_added |-> 0, exc |-> "None",
          raised |-> "None", entered |-> FALSE]

NoSess == [temp_path |-> 0, collection |-> "None", auth |-> FALSE, required |-> FALSE,
           decks |-> {}, notetypes |-> <<>>, notes |-> <<>>]

\* The history: `at` gives each inserted key its time of insertion and its value,
\* `inserted` lists the keys in the order of their insertion, `used` in the order
\* of their last use (insertion or successful lookup), and `evicted` holds the keys
\* that an insertion removed while they were still retrievable.
NoHist == [at |-> EmptyFn, inserted |-> <<>>, used |-> <<>>, evicted |-> {}]

\* the history after an activation that inserted st.put or found st.hit (<<>>: none)
Record(st) ==
    LET key == IF st.put # <<>> THEN st.put ELSE st.hit
    IN [at |-> IF st.put # <<>>
               THEN SetAt(hist.at, st.put, [time |-> now, value |-> st.value])
               ELSE hist.at,
        inserted |-> IF st.put # <<>> THEN MoveToEnd(hist.inserted, st.put) ELSE hist.inserted,
        used |-> IF key # <<>> THEN MoveToEnd(hist.used, key) ELSE hist.used,
        evicted |-> hist.evicted \cup (Live(cache, now) \ Live(st.cache, now))]

\* an activation that ends within one step: its effects, and the handler has returned
Finish(st, a) ==
    /\ hist' = Record(st)
    /\ cache' = st.cache
    /\ issued' = st.issued
    /\ log' = st.log
    /\ sent' = st.sent
    /\ act' = [a EXCEPT !.raised = st.raised,
                         !.translation_id = st.put,
                         !.translation = IF st.put # <<>> THEN st.value ELSE @]
    /\ sess' = NoSess
    /\ pc' = "done"
    /\ UNCHANGED <<now, files, input, th>>

(***************************************************************************)
(* Inputs of the sequential specification.                                 *)
(***************************************************************************)
ReqHund == <<"H", "u", "n", "d">>
ReqBad == <<"a", "!">>

Completions ==
    {CompletionError, CompletionMalformed, Completion(<<CtxHund>>),
     Completion(<<CtxHund, CtxMarkup>>), Completion(<<CtxHund, CtxNoTranslations>>)}

MessageTexts == {ReqHund, ReqBad, <<"/", "s", "t", "a", "r", "t">>, <<"/", "a">>}

\* Messages: the sender (0: None), the chat, whether there is text, the text.
\* The profiled user writes in the own chat and in another chat (a group); a
\* sender without profile, or no sender, writes in either chat.
Messages ==
    {[from_user |-> 1, chat_id |-> 1, has_text |-> TRUE, text |-> t] : t \in MessageTexts}
    \cup {[from_user |-> 1, chat_id |-> 1, has_text |-> FALSE, text |-> <<>>]}
    \cup {[from_user |-> 1, chat_id |-> 2, has_text |-> TRUE, text |-> ReqHund]}
    \cup {[from_user |-> u, chat_id |-> c, has_text |-> TRUE, text |-> ReqHund] :
             u \in {0, 2}, c \in Ids}

CallbackData ==
    {AddPayload(UuidStr(k)) : k \in 1..MaxTokens}
    \cup {RetryPayload(ReqHund), RetryPayload(ReqBad)}
    \cup {CALLBACK_ADD_TO_ANKI, <<":", "a">>, CALLBACK_RETRY \o <<":">>, <<"a", ":", "b">>, <<>>}

\* Control activations: the chat of the message (0: no message), whether there is
\* data, the data.  A chat without profile sends one payload of each kind.
Callbacks ==
    {[message_chat |-> 1, has_data |-> TRUE, data |-> d] : d \in CallbackData}
    \cup {[message_chat |-> 1, has_data |-> FALSE, data |-> <<>>]}
    \cup {[message_chat |-> c, has_data |-> TRUE, data |-> d] :
             c \in {0, 2}, d \in {AddPayload(UuidStr(1)), RetryPayload(ReqHund)}}

(***************************************************************************)
(* message_handler, bot.py lines 77-97.  from_user 0 is None.              *)
(***************************************************************************)
message_handler(from_user, chat_id, has_text, text) ==
    /\ pc = "idle"
    /\ LET a == [NoAct EXCEPT !.kind = "message", !.from_user = from_user,
                               !.chat_id = chat_id, !.request = text]
       IN IF ~authorized(from_user)
          THEN Finish(Fresh, a)
          ELSE IF ~has_text
          THEN Finish(Fresh, a)
          ELSE IF text # <<>> /\ Head(text) = "/"
          THEN Finish([Fresh EXCEPT
                          !.sent = <<Msg(chat_id, IF text = <<"/", "s", "t", "a", "r", "t">>
                                                  THEN MSG_START ELSE MSG_SORRY, <<>>, <<>>)>>,
                          !.log = <<Call("send_message", TRUE)>>], a)
          ELSE \E completion \in Completions :
                  /\ CanTranslate(text, completion)
                  /\ Finish(translate(chat_id, text, completion, Fresh, now), a)

(***************************************************************************)
(* Cards (bot.py lines 239-306).                                           *)
(***************************************************************************)
BR == <<"<", "b", "r", ">", "<", "b", "r", ">">>
I_OPEN == <<"<", "i", ">">>
I_CLOSE == <<"<", "/", "i", ">">>

\* _format_article
format_article(article) == IF article # <<>> THEN article \o <<" ">> ELSE <<>>

\* _format_verb_forms
format_verb_forms(verb_forms) ==
    IF ~verb_forms.present THEN <<>>
    ELSE <<" ", "(">> \o verb_forms.praeteritum \o <<",", " ">> \o verb_forms.perfekt \o <<")">>

\* ", ".join(items)
RECURSIVE join(_)
join(items) ==
    IF items = <<>> THEN <<>>
    ELSE IF Len(items) = 1 THEN Head(items)
         ELSE Head(items) \o <<",", " ">> \o join(Tail(items))

TypeLabel(context) == <<"[">> \o context.type \o <<",", " ">> \o context.label \o <<"]">>

\* context_to_card: (front, back) of the forward card
context_to_card(context) ==
    [front |-> format_article(context.article) \o context.text
               \o format_verb_forms(context.verb_forms)
               \o BR \o I_OPEN \o TypeLabel(context) \o I_CLOSE,
     back |-> join(context.translations) \o BR \o I_OPEN \o context.example \o I_CLOSE]

\* context_to_reverse_card: (front, back) of the reverse card
context_to_reverse_card(context) ==
    [front |-> join(context.translations) \o BR \o I_OPEN \o TypeLabel(context) \o I_CLOSE,
     back |-> format_article(context.article) \o context.text
              \o format_verb_forms(context.verb_forms)
              \o BR \o I_OPEN \o context.example \o I_CLOSE]

\* a loop that adds the reverse card of a context before its forward card
CardAtReverseFirst(translation, chat_id, i) ==
    LET context == translation.contexts[(i + 1) \div 2]
        card == IF i % 2 = 1 THEN context_to_reverse_card(context)
                ELSE context_to_card(context)
    IN [deck |-> UserConfig(chat_id).anki_deck, front |-> card.front, back |-> card.back]

\* the i-th add_card call (1-based) of add_to_anki's loop over the contexts:
\* the forward card of a context, then its reverse card
CardAt(translation, chat_id, i) ==
    LET context == translation.contexts[(i + 1) \div 2]
        card == IF i % 2 = 1 THEN context_to_card(context)
                ELSE context_to_reverse_card(context)
    IN [deck |-> UserConfig(chat_id).anki_deck, front |-> card.front, back |-> card.back]

NumCards(translation) == 2 * Len(translation.contexts)

(***************************************************************************)
(* Exceptions: the classes of anki_client.py lines 18-31 and the builtins. *)
(***************************************************************************)
Bases(cls) ==
    CASE cls = "AnkiLoginError" -> {"AnkiLoginError", "AnkiSyncError", "Exception"}
      [] cls = "AnkiDownloadError" -> {"AnkiDownloadError", "AnkiSyncError", "Exception"}
      [] cls = "AnkiUploadError" -> {"AnkiUploadError", "AnkiSyncError", "Exception"}
      [] cls = "None" -> {}
      [] OTHER -> {cls, "Exception"}

\* the except clauses of add_to_anki, in order (bot.py lines 203-233)
ExceptClauses ==
    << [cls |-> "AnkiLoginError", text |-> MSG_LOGIN_FAILED],
       [cls |-> "AnkiDownloadError", text |-> MSG_DOWNLOAD_FAILED],
       [cls |-> "AnkiUploadError", text |-> MSG_UPLOAD_FAILED],
       [cls |-> "Exception", text |-> MSG_UNEXPECTED] >>

\* a report that is the success message whatever was raised
OutcomeTextAdded(exc) == MSG_ADDED

\* the text add_to_anki sends for what the with statement raised
OutcomeText(exc) ==
    IF exc = "None" THEN MSG_ADDED
    ELSE LET i == CHOOSE i \in DOMAIN ExceptClauses :
                     /\ ExceptClauses[i].cls \in Bases(exc)
                     /\ \A j \in 1..(i - 1) : ExceptClauses[j].cls \notin Bases(exc)
         IN ExceptClauses[i].text

(***************************************************************************)
(* callback_query_handler, bot.py lines 39-74.  message_chat 0: the call   *)
(* has no message.  An "add" of a cached translation calls add_to_anki,    *)
(* which touches neither the cache nor its timer; the call is recorded     *)
(* here, and its steps are the actions of the session specification.       *)
(***************************************************************************)
Paths == 1..MaxPaths

\* a test that only asks for the separator
malformed_no_separator(has_data, data, pos) == pos < 0 \/ ~has_data

\* line 56: the data is missing, or has no ":", an empty command or an empty argument
malformed(has_data, data, pos) == pos <= 0 \/ ~has_data \/ pos = Len(data) - 1

callback_query_handler(message_chat, has_data, data) ==
    /\ pc = "idle"
    /\ LET a == [NoAct EXCEPT !.kind = "callback", !.from_user = message_chat,
                               !.chat_id = message_chat, !.data = data]
           st0 == [Fresh EXCEPT !.log = <<Call("answer_callback_query", TRUE)>>]
           pos == IF has_data /\ data # <<>> THEN find(data, ":") ELSE -1
           command == slice(data, 0, pos)
           arg == slice(data, pos + 1, Len(data))
       IN IF ~authorized(message_chat)
          THEN Finish(Fresh, a)
          ELSE IF malformed(has_data, data, pos)
          THEN Finish(st0, a)
          ELSE IF command = CALLBACK_RETRY
          THEN \E completion \in Completions :
                  /\ CanTranslate(arg, completion)
                  /\ Finish(translate(message_chat, arg, completion, st0, now),
                            [a EXCEPT !.request = arg])
          ELSE IF command = CALLBACK_ADD_TO_ANKI
          THEN LET g == get(cache, arg, now)
               IN IF g.hit
                  THEN Finish([st0 EXCEPT
                                  !.cache = g.cache,
                                  !.hit = arg,
                                  !.log = @ \o <<Call("cache_get", TRUE),
                                                 Call("add_to_anki", TRUE)>>],
                              [a EXCEPT !.translation = g.value])
                  ELSE Finish([st0 EXCEPT
                                  !.cache = g.cache,
                                  !.log = @ \o <<Call("cache_get", FALSE),
                                                 Call("send_message", TRUE)>>,
                                  !.sent = <<Msg(message_chat, MSG_STALE, <<>>, <<>>)>>], a)
          ELSE Finish(st0, a)

(***************************************************************************)
(* add_to_anki (bot.py lines 163-233) with AnkiSession (anki_client.py),   *)
(* step by step.  What each call to the sync server, the collection and    *)
(* the file system answers is chosen at the step that makes the call.      *)
(***************************************************************************)
SessionFrame == <<now, cache, issued, sent, input, th, hist>>

\* the translations translate can have cached: translate_ai's results, the one
\* without any context included (AiTranslatorResponse.contexts has no validator)
Translations ==
    {translate_ai(ReqHund, c).translation :
        c \in {c \in Completions \cup {Completion(<<>>)} : ~translate_ai(ReqHund, c).raised}}

\* add_to_anki(chat_id, translation) is called (bot.py lines 163-166)
add_to_anki(chat_id, translation) ==
    /\ pc = "idle"
    /\ act' = [NoAct EXCEPT !.kind = "add", !.chat_id = chat_id, !.translation = translation]
    /\ sess' = NoSess
    /\ log' = <<Call("add_to_anki", TRUE)>>
    /\ sent' = <<>>
    /\ pc' = "enter"
    /\ UNCHANGED <<now, cache, issued, files, input, th, hist>>

Raise(exc, next) ==
    /\ act' = [act EXCEPT !.exc = exc]
    /\ pc' = next

\* __enter__ lines 58-64: the temp path, named by 8 hex digits of a uuid4
EnterTempPath ==
    /\ pc = "enter"
    /\ \E p \in Paths :
          /\ sess' = [NoSess EXCEPT !.temp_path = p]
          /\ pc' = IF p \in files THEN "remove_stale" ELSE "create"
    /\ log' = Append(log, Call("__enter__", TRUE))
    /\ UNCHANGED <<act, files>>
    /\ UNCHANGED SessionFrame

\* __enter__ lines 64-66: os.remove of a file that has the name already.  It is
\* outside the try statement: when it raises, __enter__ raises without _cleanup.
RemoveStale ==
    /\ pc = "remove_stale"
    /\ \E ok \in BOOLEAN :
          /\ log' = Append(log, Call("os.remove(stale)", ok))
          /\ IF ok
             THEN files' = files \ {sess.temp_path} /\ pc' = "create" /\ act' = act
             ELSE files' = files /\ Raise("OSError", "report")
    /\ UNCHANGED sess
    /\ UNCHANGED SessionFrame

\* __enter__ line 69: Collection(self.temp_path).  When it raises, the file may
\* or may not have been created already.
CreateCollection ==
    /\ pc = "create"
    /\ \E ok \in BOOLEAN, created \in BOOLEAN :
          /\ ok => created
          /\ log' = Append(log, Call("Collection", ok))
          /\ files' = IF created THEN files \cup {sess.temp_path} ELSE files
          /\ IF ok
             THEN sess' = [sess EXCEPT !.collection = "open"] /\ pc' = "login" /\ act' = act
             ELSE sess' = sess /\ Raise("DBError", "cleanup")
    /\ UNCHANGED SessionFrame

\* sync_login's failure is logged and the session goes on
LoginSwallowed ==
    /\ pc = "login"
    /\ \E ok \in BOOLEAN :
          /\ log' = Append(log, Call("sync_login", ok))
          /\ sess' = [sess EXCEPT !.auth = ok]
          /\ pc' = "pull"
          /\ act' = act
    /\ UNCHANGED files
    /\ UNCHANGED SessionFrame

\* __enter__ lines 72-79: sync_login
Login ==
    /\ pc = "login"
    /\ \E ok \in BOOLEAN :
          /\ log' = Append(log, Call("sync_login", ok))
          /\ IF ok
             THEN sess' = [sess EXCEPT !.auth = TRUE] /\ pc' = "pull" /\ act' = act
             ELSE sess' = sess /\ Raise("AnkiLoginError", "cleanup")
    /\ UNCHANGED files
    /\ UNCHANGED SessionFrame

\* what a download leaves in the working copy: the decks and the note types
Decks == {{}, {"German"}}
Notetypes == {<<"Basic">>, <<"Cloze">>, <<>>}

\* __enter__ returns self: the body of the with statement starts
Body(decks, notetypes) ==
    /\ sess' = [sess EXCEPT !.decks = decks, !.notetypes = notetypes]
    /\ act' = [act EXCEPT !.entered = TRUE]
    /\ pc' = IF NumCards(act.translation) = 0 THEN "sync" ELSE "add_card"

\* __enter__ lines 81-97: sync_collection; result.required == 3 asks for a full download
Pull ==
    /\ pc = "pull"
    /\ \E r \in {"ok", "full", "fail"} :
          /\ log' = Append(log, Call("sync_collection", r # "fail"))
          /\ CASE r = "ok" -> \E d \in Decks, n \in Notetypes : Body(d, n)
               [] r = "full" -> /\ sess' = [sess EXCEPT !.required = TRUE]
                                /\ act' = act
                                /\ pc' = "full_download"
               [] OTHER -> sess' = sess /\ Raise("AnkiDownloadError", "cleanup")
    /\ UNCHANGED files
    /\ UNCHANGED SessionFrame

\* __enter__ lines 87-91: full_upload_or_download(upload=False)
FullDownload ==
    /\ pc = "full_download"
    /\ \E ok \in BOOLEAN :
          /\ log' = Append(log, Call("full_upload_or_download", ok))
          /\ IF ok
             THEN \E d \in Decks, n \in Notetypes : Body(d, n)
             ELSE sess' = sess /\ Raise("AnkiDownloadError", "cleanup")
    /\ UNCHANGED files
    /\ UNCHANGED SessionFrame

\* a loop that is left after its first add_card
AfterCardEarly(idx) == "sync"

\* where the with body goes after the idx-th add_card returned
AfterCard(idx) == IF idx = NumCards(act.translation) THEN "sync" ELSE "add_card"

\* one add_card call of the loop (bot.py lines 174-183, anki_client.py lines 131-166)
AddCard ==
    /\ pc = "add_card"
    /\ LET card == CardAt(act.translation, act.chat_id, act.idx + 1)
           decks == sess.decks \cup {card.deck}
           has_notetype == sess.notetypes # <<>>
       IN \E ok \in BOOLEAN :
             /\ ~has_notetype => ~ok
             /\ log' = Append(log, Call("add_card", ok))
             /\ IF ok
                THEN /\ sess' = [sess EXCEPT !.decks = decks, !.notes = Append(@, card)]
                     /\ act' = [act EXCEPT !.idx = @ + 1,
                                           !.cards_added = IF act.idx % 2 = 1 THEN @ + 2 ELSE @]
                     /\ pc' = AfterCard(act.idx + 1)
                ELSE /\ sess' = [sess EXCEPT !.decks = decks]
                     /\ Raise(IF has_notetype THEN "DBError" ELSE "RuntimeError", "cleanup")
    /\ UNCHANGED files
    /\ UNCHANGED SessionFrame

\* sync raises the download error instead of the upload error
SyncRaisesDownload ==
    /\ pc = "sync"
    /\ \E ok \in BOOLEAN :
          /\ log' = Append(log, Call("sync", ok))
          /\ IF ok THEN act' = act /\ pc' = "cleanup"
             ELSE Raise("AnkiDownloadError", "cleanup")
    /\ UNCHANGED <<sess, files>>
    /\ UNCHANGED SessionFrame

\* anki.sync(), anki_client.py lines 168-178
Sync ==
    /\ pc = "sync"
    /\ \E ok \in BOOLEAN :
          /\ log' = Append(log, Call("sync", ok))
          /\ IF ok THEN act' = act /\ pc' = "cleanup"
             ELSE Raise("AnkiUploadError", "cleanup")
    /\ UNCHANGED <<sess, files>>
    /\ UNCHANGED SessionFrame

\* _cleanup lines 117-122: close the collection; a failure is logged
CleanupClose ==
    /\ pc = "cleanup"
    /\ IF sess.collection # "None"
       THEN \E ok \in BOOLEAN :
               /\ log' = log \o <<Call("_cleanup", TRUE), Call("close", ok)>>
               /\ sess' = [sess EXCEPT !.collection = IF ok THEN "closed" ELSE @]
       ELSE log' = Append(log, Call("_cleanup", TRUE)) /\ sess' = sess
    /\ pc' = "cleanup_remove"
    /\ UNCHANGED <<act, files>>
    /\ UNCHANGED SessionFrame

\* a _cleanup whose os.remove is not guarded: its failure replaces the exception
CleanupRemoveRaising ==
    /\ pc = "cleanup_remove"
    /\ IF sess.temp_path # 0 /\ sess.temp_path \in files
       THEN \E ok \in BOOLEAN :
               /\ log' = Append(log, Call("os.remove", ok))
               /\ files' = IF ok THEN files \ {sess.temp_path} ELSE files
               /\ act' = IF ok THEN act ELSE [act EXCEPT !.exc = "OSError"]
       ELSE log' = log /\ files' = files /\ act' = act
    /\ pc' = "report"
    /\ UNCHANGED sess
    /\ UNCHANGED SessionFrame

\* _cleanup lines 124-129: delete the temp file; a failure is logged
CleanupRemove ==
    /\ pc = "cleanup_remove"
    /\ IF sess.temp_path # 0 /\ sess.temp_path \in files
       THEN \E ok \in BOOLEAN :
               /\ log' = Append(log, Call("os.remove", ok))
               /\ files' = IF ok THEN files \ {sess.temp_path} ELSE files
       ELSE log' = log /\ files' = files
    /\ pc' = "report"
    /\ UNCHANGED <<act, sess>>
    /\ UNCHANGED SessionFrame

\* add_to_anki lines 187-233: the message for the outcome of the with statement
Report ==
    /\ pc = "report"
    /\ sent' = Append(sent, Msg(act.chat_id, OutcomeText(act.exc),
                                IF act.exc = "None" THEN act.cards_added ELSE act.exc, <<>>))
    /\ log' = Append(log, Call("send_message", TRUE))
    /\ pc' = "done"
    /\ UNCHANGED <<now, cache, issued, files, act, sess, input, th, hist>>

\* Time passes.  Only the cache reads the timer, and only in a handler's one step:
\* so the time is counted between activations, and from the first insertion on.
Tick ==
    /\ pc = "idle"
    /\ now < MaxTime
    /\ hist.inserted # <<>>
    /\ now' = now + 1
    /\ UNCHANGED <<cache, issued, files, pc, act, sess, log, sent, input, th, hist>>

\* the handler has returned: the worker takes the next update (polling, lines 100-108)
Return ==
    /\ pc = "done"
    /\ pc' = "idle"
    /\ act' = NoAct
    /\ sess' = NoSess
    /\ log' = <<>>
    /\ sent' = <<>>
    /\ UNCHANGED <<now, cache, issued, files, input, th, hist>>

(***************************************************************************)
(* Spec: the handlers and the cache, one activation at a time.             *)
(***************************************************************************)
Init ==
    /\ now = 0
    /\ cache = NewCache
    /\ issued = {}
    /\ files = {}
    /\ pc = "idle"
    /\ act = NoAct
    /\ sess = NoSess
    /\ log = <<>>
    /\ sent = <<>>
    /\ input = <<>>
    /\ th = <<>>
    /\ hist = NoHist

OnMessage ==
    \E m \in Messages : message_handler(m.from_user, m.chat_id, m.has_text, m.text)

OnCallback ==
    \E c \in Callbacks : callback_query_handler(c.message_chat, c.has_data, c.data)

Next ==
    \/ OnMessage
    \/ OnCallback
    \/ Tick
    \/ Return

Spec == Init /\ [][Next]_vars

(***************************************************************************)
(* SpecSession: add_to_anki and its AnkiSession, one call at a time.  The  *)
(* files that a session leaves behind are there for the next one.          *)
(***************************************************************************)
OnAddToAnki == \E chat_id \in Users, translation \in Translations : add_to_anki(chat_id, translation)

NextSession ==
    \/ OnAddToAnki
    \/ EnterTempPath
    \/ RemoveStale
    \/ CreateCollection
    \/ Login
    \/ Pull
    \/ FullDownload
    \/ AddCard
    \/ Sync
    \/ CleanupClose
    \/ CleanupRemove
    \/ Report
    \/ Return

SpecSession == Init /\ [][NextSession]_vars

(***************************************************************************)
(* SpecValidate: one translation request, drawn from requests of every     *)
(* shape around the limits: a run of a letter (of one or of two bytes), a  *)
(* run of spaces, and an ending.  The request arrives when the cache is    *)
(* empty or holds an earlier translation.                                  *)
(***************************************************************************)
MaxRun == 59
MaxSpaces == 6

Endings ==
    {<<>>, <<"7">>, <<"'", "-">>, <<"!">>, <<"E3">>, <<"N2">>, <<":">>, <<" ", "a">>}

\* message.text is never empty, and a text that starts with "/" is a command
Requests ==
    {Repeat(w, n) \o Repeat(" ", k) \o e :
        w \in {"a", "A2"}, n \in 0..MaxRun, k \in 0..MaxSpaces, e \in Endings} \ {<<>>}

\* the state after one translation of ReqHund at time 0
Preloaded ==
    LET st == translate(1, ReqHund, Completion(<<CtxHund>>),
                        [cache |-> NewCache, issued |-> {}, log |-> <<>>, sent |-> <<>>,
                         raised |-> "None", put |-> <<>>, hit |-> <<>>, value |-> EmptyFn], 0)
    IN [cache |-> st.cache, issued |-> st.issued,
        hist |-> [at |-> SetAt(EmptyFn, st.put, [time |-> 0, value |-> st.value]),
                  inserted |-> <<st.put>>, used |-> <<st.put>>, evicted |-> {}]]

InitValidate ==
    /\ now = 0
    /\ \E st \in {[cache |-> NewCache, issued |-> {}, hist |-> NoHist], Preloaded} :
          /\ cache = st.cache
          /\ issued = st.issued
          /\ hist = st.hist
    /\ files = {}
    /\ pc = "idle"
    /\ act = NoAct
    /\ sess = NoSess
    /\ log = <<>>
    /\ sent = <<>>
    /\ input \in Requests
    /\ th = <<>>

\* the profiled user sends the request as a message in the own chat
OnRequest == message_handler(1, 1, TRUE, input)

NextValidate == OnRequest

SpecValidate == InitValidate /\ [][NextValidate]_vars

(***************************************************************************)
(* SpecThreads: the cache under telebot's worker threads.  TeleBot(token)  *)
(* is threaded, with two workers, and bot.py takes no lock around the      *)
(* cache: a handler's cache[translation_id] = translation (line 138) and   *)
(* cache.get(arg) (line 66) run in cachetools' Python code, statement by   *)
(* statement, interleaved with the other worker's.                         *)
(***************************************************************************)
Workers == {1, 2}

IdleThread ==
    [pc |-> "idle", op |-> "none", key |-> <<>>, value |-> EmptyFn, time |-> 0,
     curr |-> <<>>, size |-> 0, raised |-> "None", hit |-> FALSE, found |-> EmptyFn]

ThreadFrame == <<files, pc, act, sess, log, sent, input>>

Goto(t, next) == th' = [th EXCEPT ![t].pc = next]

ThreadRaise(t, exc) == th' = [th EXCEPT ![t].pc = "done", ![t].raised = exc]

\* The pool hands an update to a free worker; which one is immaterial, so it is
\* the first.
Free(t) == th[t].pc = "idle" /\ \A u \in Workers : u < t => th[u].pc # "idle"

\* the translation of the k-th request: the requests alternate between two words
TranslationOf(k) ==
    translate_ai(ReqHund, Completion(IF k % 2 = 1 THEN <<CtxHund>>
                                     ELSE <<CtxHund, CtxMarkup>>)).translation

\* translate lines 137-138 start: uuid4, and TTLCache.__setitem__ reads the timer
BeginPut(t) ==
    /\ Free(t)
    /\ issued # 1..MaxTokens
    /\ th' = [th EXCEPT ![t] = [IdleThread EXCEPT !.pc = "expire", !.op = "put",
                                   !.key = UuidStr(uuid4(issued)),
                                   !.value = TranslationOf(uuid4(issued)),
                                   !.time = now]]
    /\ issued' = issued \cup {uuid4(issued)}
    /\ UNCHANGED <<now, cache, hist>>
    /\ UNCHANGED ThreadFrame

\* callback_query_handler line 66 starts, with a token that a reply carried
BeginGet(t) ==
    /\ Free(t)
    /\ \E key \in DOMAIN hist.at :
          th' = [th EXCEPT ![t] = [IdleThread EXCEPT !.pc = "contains", !.op = "get",
                                      !.key = key]]
    /\ UNCHANGED <<now, cache, issued, hist>>
    /\ UNCHANGED ThreadFrame

\* TTLCache.expire, the loop's test: the first link, when its time is over
ExpireHead(t) ==
    /\ th[t].pc = "expire"
    /\ IF cache.links # <<>> /\ is_expired(cache.expires[Head(cache.links)], th[t].time)
       THEN th' = [th EXCEPT ![t].pc = "expire_del", ![t].curr = Head(cache.links)]
       ELSE Goto(t, "check")
    /\ UNCHANGED <<now, cache, issued, hist>>
    /\ UNCHANGED ThreadFrame

\* TTLCache.expire, the loop's body: Cache.__getitem__ / __delitem__ of the link's
\* key raise KeyError when the item is gone
ExpireDelete(t) ==
    /\ th[t].pc = "expire_del"
    /\ IF th[t].curr \in DOMAIN cache.data
       THEN cache' = delitem(cache, th[t].curr) /\ Goto(t, "expire")
       ELSE cache' = cache /\ ThreadRaise(t, "KeyError")
    /\ UNCHANGED <<now, issued, hist>>
    /\ UNCHANGED ThreadFrame

\* Cache.__setitem__, the loop's test: while self.__currsize + size > maxsize
CheckRoom(t) ==
    /\ th[t].pc = "check"
    /\ Goto(t, IF cache.currsize + 1 > CACHE_MAX_SIZE THEN "pop_pick" ELSE "store")
    /\ UNCHANGED <<now, cache, issued, hist>>
    /\ UNCHANGED ThreadFrame

\* TTLCache.popitem: expire, then key = next(iter(self.__links)); KeyError when empty
PopPick(t) ==
    /\ th[t].pc = "pop_pick"
    /\ cache' = expire(cache, th[t].time)
    /\ IF cache'.links = <<>>
       THEN ThreadRaise(t, "KeyError")
       ELSE th' = [th EXCEPT ![t].pc = "pop_del", ![t].curr = popitem_key(cache')]
    /\ UNCHANGED <<now, issued, hist>>
    /\ UNCHANGED ThreadFrame

\* TTLCache.popitem: self.pop(key), which raises KeyError when the key is gone
PopDelete(t) ==
    /\ th[t].pc = "pop_del"
    /\ IF contains(cache, th[t].curr, th[t].time) /\ th[t].curr \in DOMAIN cache.data
       THEN /\ cache' = delitem(cache, th[t].curr)
            /\ hist' = [hist EXCEPT !.evicted = @ \cup {th[t].curr}]
            /\ Goto(t, "check")
       ELSE /\ cache' = cache
            /\ hist' = hist
            /\ ThreadRaise(t, "KeyError")
    /\ UNCHANGED <<now, issued>>
    /\ UNCHANGED ThreadFrame

\* Cache.__setitem__: self.__data[key] = value
Store(t) ==
    /\ th[t].pc = "store"
    /\ cache' = [cache EXCEPT !.data = SetAt(@, th[t].key, th[t].value)]
    /\ Goto(t, "size_read")
    /\ UNCHANGED <<now, issued, hist>>
    /\ UNCHANGED ThreadFrame

\* Cache.__setitem__: self.__currsize += diffsize, the read
SizeRead(t) ==
    /\ th[t].pc = "size_read"
    /\ th' = [th EXCEPT ![t].pc = "size_write", ![t].size = cache.currsize]
    /\ UNCHANGED <<now, cache, issued, hist>>
    /\ UNCHANGED ThreadFrame

\* Cache.__setitem__: self.__currsize += diffsize, the write
SizeWrite(t) ==
    /\ th[t].pc = "size_write"
    /\ cache' = [cache EXCEPT !.currsize = th[t].size + 1]
    /\ Goto(t, "link")
    /\ UNCHANGED <<now, issued, hist>>
    /\ UNCHANGED ThreadFrame

\* TTLCache.__setitem__: the link of the key, with its time of expiry, goes to the
\* end of __links; the insertion is complete and translate sends the token
Link(t) ==
    /\ th[t].pc = "link"
    /\ cache' = [cache EXCEPT !.links = MoveToEnd(@, th[t].key),
                              !.expires = SetAt(@, th[t].key, th[t].time + CACHE_TTL_SECONDS)]
    /\ hist' = [hist EXCEPT
                  !.at = SetAt(@, th[t].key, [time |-> th[t].time, value |-> th[t].value])]
    /\ Goto(t, "done")
    /\ UNCHANGED <<now, issued>>
    /\ UNCHANGED ThreadFrame

\* Cache.get: if key in self
Contains(t) ==
    /\ th[t].pc = "contains"
    /\ Goto(t, IF contains(cache, th[t].key, now) THEN "getitem" ELSE "done")
    /\ UNCHANGED <<now, cache, issued, hist>>
    /\ UNCHANGED ThreadFrame

\* Cache.get: return self[key]; TTLCache.__getitem__ raises KeyError when the key
\* has expired or is gone since the test
GetItem(t) ==
    /\ th[t].pc = "getitem"
    /\ IF contains(cache, th[t].key, now) /\ th[t].key \in DOMAIN cache.data
       THEN /\ cache' = getitem_touch(cache, th[t].key)
            /\ th' = [th EXCEPT ![t].pc = "done", ![t].hit = TRUE,
                                ![t].found = cache.data[th[t].key]]
       ELSE /\ cache' = IF th[t].key \in DOMAIN cache.expires
                        THEN getitem_touch(cache, th[t].key) ELSE cache
            /\ ThreadRaise(t, "KeyError")
    /\ UNCHANGED <<now, issued, hist>>
    /\ UNCHANGED ThreadFrame

\* the handler returns (or its exception is logged): the worker is free again
ThreadReturn(t) ==
    /\ th[t].pc = "done"
    /\ th' = [th EXCEPT ![t] = IdleThread]
    /\ UNCHANGED <<now, cache, issued, hist>>
    /\ UNCHANGED ThreadFrame

InitThreads ==
    /\ now = 0
    /\ cache = NewCache
    /\ issued = {}
    /\ files = {}
    /\ pc = "idle"
    /\ act = NoAct
    /\ sess = NoSess
    /\ log = <<>>
    /\ sent = <<>>
    /\ input = <<>>
    /\ th = [t \in Workers |-> IdleThread]
    /\ hist = NoHist

\* time passes while the workers run
TickThreads ==
    /\ now < MaxTime
    /\ issued # {}
    /\ now' = now + 1
    /\ UNCHANGED <<cache, issued, th, hist>>
    /\ UNCHANGED ThreadFrame

NextThreads ==
    \/ \E t \in Workers : BeginPut(t)
    \/ \E t \in Workers : BeginGet(t)
    \/ \E t \in Workers : ExpireHead(t)
    \/ \E t \in Workers : ExpireDelete(t)
    \/ \E t \in Workers : CheckRoom(t)
    \/ \E t \in Workers : PopPick(t)
    \/ \E t \in Workers : PopDelete(t)
    \/ \E t \in Workers : Store(t)
    \/ \E t \in Workers : SizeRead(t)
    \/ \E t \in Workers : SizeWrite(t)
    \/ \E t \in Workers : Link(t)
    \/ \E t \in Workers : Contains(t)
    \/ \E t \in Workers : GetItem(t)
    \/ \E t \in Workers : ThreadReturn(t)
    \/ TickThreads

SpecThreads == InitThreads /\ [][NextThreads]_vars

(***************************************************************************)
(* Properties of the session (SpecSession).                                *)
(***************************************************************************)
\* the calls of the log with this name
Calls(l, name) == {i \in DOMAIN l : l[i].call = name}

Made(l, name) == Calls(l, name) # {}

Failed(l, name) == \E i \in Calls(l, name) : ~l[i].ok

Succeeded(l, name) == \E i \in Calls(l, name) : l[i].ok

\* the with statement is over: add_to_anki is about to report, or has reported
SessionOver == act.kind = "add" /\ pc \in {"report", "done"}

\* C1: every session that was entered runs _cleanup exactly once, however it ends
\* (stated for the sessions that are over).
C1_ReleaseExactlyOnce ==
    (SessionOver /\ Made(log, "__enter__")) => Cardinality(Calls(log, "_cleanup")) = 1

\* the same for the sessions whose removal of a stale file did not fail
C1_ReleaseOnceUnlessStaleRemovalFails ==
    (SessionOver /\ Made(log, "__enter__") /\ ~Failed(log, "os.remove(stale)"))
        => Cardinality(Calls(log, "_cleanup")) = 1

\* never more than once
C1_ReleaseAtMostOnce == Cardinality(Calls(log, "_cleanup")) <= 1

\* C2: when sync_login fails, the session makes no pull, no full download, no
\* add_card and no push, what it raises is AnkiLoginError (reported as the login
\* failure), and once the session is over its file is gone unless deleting it failed.
C2_AuthFailureStopsSession ==
    Failed(log, "sync_login") =>
        /\ ~Made(log, "sync_collection")
        /\ ~Made(log, "full_upload_or_download")
        /\ ~Made(log, "add_card")
        /\ ~Made(log, "sync")
        /\ act.exc = "AnkiLoginError"
        /\ sess.notes = <<>>
        /\ (pc = "done" => sent = <<Msg(act.chat_id, MSG_LOGIN_FAILED, "AnkiLoginError", <<>>)>>)
        /\ (SessionOver /\ ~Failed(log, "os.remove") => sess.temp_path \notin files)

C2_Witness ==
    /\ pc = "done"
    /\ Failed(log, "sync_login")
    /\ Succeeded(log, "os.remove")
    /\ sess.temp_path \notin files

\* the session failed at push after every mutation succeeded / failed at pull
PushFailed == Failed(log, "sync") /\ ~Failed(log, "add_card")

PullFailed == Failed(log, "sync_collection") \/ Failed(log, "full_upload_or_download")

\* the text of the one message the finished activation sent
OutcomeSent(text) == Len(sent) = 1 /\ sent[1].text = text /\ sent[1].chat_id = act.chat_id

\* C3 as stated: a push failure and a pull failure are reported differently, and in
\* both cases the file is gone when the session is over.
C3_DistinctOutcomesFileGone ==
    /\ MSG_UPLOAD_FAILED # MSG_DOWNLOAD_FAILED
    /\ (pc = "done" /\ PushFailed) => (OutcomeSent(MSG_UPLOAD_FAILED) /\ act.exc = "AnkiUploadError")
    /\ (pc = "done" /\ PullFailed) => (OutcomeSent(MSG_DOWNLOAD_FAILED) /\ act.exc = "AnkiDownloadError")
    /\ (SessionOver /\ (PushFailed \/ PullFailed)) => sess.temp_path \notin files

\* C3 amended: the file is gone unless deleting it failed, which _cleanup only logs.
C3_DistinctOutcomesFileGoneIfDeleted ==
    /\ MSG_UPLOAD_FAILED # MSG_DOWNLOAD_FAILED
    /\ (pc = "done" /\ PushFailed) => (OutcomeSent(MSG_UPLOAD_FAILED) /\ act.exc = "AnkiUploadError")
    /\ (pc = "done" /\ PullFailed) => (OutcomeSent(MSG_DOWNLOAD_FAILED) /\ act.exc = "AnkiDownloadError")
    /\ (SessionOver /\ (PushFailed \/ PullFailed) /\ ~Failed(log, "os.remove"))
          => sess.temp_path \notin files

C3_Witness ==
    /\ pc = "done"
    /\ PushFailed
    /\ Cardinality(Calls(log, "add_card")) = 4
    /\ Len(sess.notes) = 4
    /\ OutcomeSent(MSG_UPLOAD_FAILED)
    /\ sess.temp_path \notin files

(***************************************************************************)
(* Properties of the cache (Spec).                                         *)
(***************************************************************************)
\* the step is a whole activation
Activation == pc = "idle" /\ pc' = "done"

\* the activation inserted into the cache (translate, line 138)
PutStep == Activation /\ Made(log', "cache_setitem")

\* the activation looked a token up (callback_query_handler, line 66)
LookupStep == Activation /\ Made(log', "cache_get")

HitStep == Activation /\ Succeeded(log', "cache_get")

\* the argument of a control payload: the text after the first ":"
ArgOf(data) == slice(data, find(data, ":") + 1, Len(data))

CommandOf(data) == slice(data, 0, find(data, ":"))

\* the first element of seq that is in S
FirstIn(seq, S) == Head(SelectIn(seq, S))

\* the tokens uuid4 has returned, as text
IssuedIds == {UuidStr(k) : k \in issued}

Stale(token) ==
    \/ token \notin DOMAIN hist.at
    \/ token \in hist.evicted
    \/ now > hist.at[token].time + CACHE_TTL_SECONDS

\* an authorized "add" activation with this payload
AddActivation(a) ==
    /\ a.kind = "callback"
    /\ a.chat_id \in Users
    /\ find(a.data, ":") > 0
    /\ find(a.data, ":") < Len(a.data) - 1
    /\ CommandOf(a.data) = CALLBACK_ADD_TO_ANKI

StaleNotice(messages, calls, chat_id) ==
    /\ messages = <<Msg(chat_id, MSG_STALE, <<>>, <<>>)>>
    /\ calls = <<Call("answer_callback_query", TRUE), Call("cache_get", FALSE),
               Call("send_message", TRUE)>>

\* C5: an authorized "add" activation with a stale token sends the stale notice and
\* nothing else, opens no session, leaves the cache as it was and does not raise.
C5_StaleAdd ==
    [][(Activation /\ AddActivation(act') /\ Stale(ArgOf(act'.data))) =>
         /\ StaleNotice(sent', log', act'.chat_id)
         /\ ~Made(log', "add_to_anki")
         /\ act'.raised = "None"
         /\ cache' = cache
         /\ issued' = issued
         /\ files' = files]_vars

\* the stale notice after a token that was inserted and has expired
C5_Witness ==
    /\ pc = "done"
    /\ AddActivation(act)
    /\ ArgOf(act.data) \in DOMAIN hist.at
    /\ ArgOf(act.data) \in DOMAIN cache.data
    /\ Stale(ArgOf(act.data))
    /\ StaleNotice(sent, log, act.chat_id)

\* the insertion into a cache that holds CACHE_MAX_SIZE retrievable entries
PutWhenFull == PutStep /\ Cardinality(Live(cache, now)) = CACHE_MAX_SIZE

\* after the step exactly `victim` is gone, the new entry is there, the others kept
Evicts(victim) ==
    /\ Live(cache', now') = (Live(cache, now) \ {victim}) \cup {act'.translation_id}
    /\ victim # act'.translation_id
    /\ \A k \in Live(cache, now) \ {victim} : get(cache', k, now').value = cache.data[k]
    /\ get(cache', act'.translation_id, now').value = act'.translation

WithinCapacity ==
    /\ Cardinality(DOMAIN cache.data) <= CACHE_MAX_SIZE
    /\ Cardinality(Live(cache, now)) <= CACHE_MAX_SIZE

Found(key) == get(cache, key, now).hit /\ get(cache, key, now).value = hist.at[key].value

RECURSIVE EvictionOrder(_, _)
EvictionOrder(c, time) ==
    LET c1 == popitem(c, time)
        gone == DOMAIN expire(c, time).data \ DOMAIN c1.data
    IN IF gone = {} THEN <<>>
       ELSE <<CHOOSE k \in gone : TRUE>> \o EvictionOrder(c1, time)

Kept == {k \in DOMAIN hist.at \ hist.evicted : now < hist.at[k].time + CACHE_TTL_SECONDS}

\* C9: under every interleaving of the workers' insertions and lookups, every
\* completed insertion is retrievable until it expires or is evicted for capacity,
\* a lookup returns the value inserted under its token, and the cache never holds
\* more than CACHE_MAX_SIZE items.
C9_ConcurrentCacheSafe ==
    /\ \A k \in Kept : get(cache, k, now).hit /\ get(cache, k, now).value = hist.at[k].value
    /\ \A t \in DOMAIN th : th[t].hit => th[t].found = hist.at[th[t].key].value
    /\ Cardinality(DOMAIN cache.data) <= CACHE_MAX_SIZE

\* C9, the part that holds: what a lookup finds is what was inserted under the token
C9_LookupFindsInserted ==
    \A t \in DOMAIN th : th[t].hit => th[t].found = hist.at[th[t].key].value

(***************************************************************************)
(* Properties of the validation (SpecValidate).                            *)
(***************************************************************************)
IsLetter(c) == c \in AsciiLetters \cup WideLetters

IsDigit(c) == c \in Digits

\* the step is translate's, for the request `input`
ValidateStep == pc = "idle" /\ pc' = "done" /\ act'.kind = "message" /\ act'.request = input

\* the rejection message, once, and nothing else: no analysis call, no insertion,
\* no controls
RejectionOnly ==
    /\ sent' = <<Msg(act'.chat_id, MSG_REJECTED, <<>>, <<>>)>>
    /\ log' = <<Call("send_message", TRUE)>>
    /\ cache' = cache
    /\ issued' = issued
    /\ hist' = hist
    /\ act'.raised = "None"

\* the request went on to the analysis
Analysed == Made(log', "translate_ai") /\ \A i \in DOMAIN sent' : sent'[i].text # MSG_REJECTED

\* C10 as stated: translate rejects exactly the requests with more than 4 spaces, or
\* more than 58 UTF-8 bytes, or a character that is not a letter, digit, space,
\* apostrophe or hyphen; a rejected request gets the rejection message and nothing else.
C10_RejectsOutsideLettersDigits ==
    [][ValidateStep =>
        IF \/ count(input, " ") > 4
           \/ encoded_len(input) > 58
           \/ \E i \in DOMAIN input :
                 ~(IsLetter(input[i]) \/ IsDigit(input[i]) \/ input[i] \in {" ", "'", "-"})
        THEN RejectionOnly
        ELSE Analysed]_vars

\* C10 amended: the characters that pass are the alphanumeric ones in the sense of
\* str.isalnum, which besides letters and digits covers the other numeric characters
\* (such as the fraction one half), and space, apostrophe and hyphen.
C10_RejectsOutsideAlphanumerics ==
    [][ValidateStep =>
        IF \/ count(input, " ") > 4
           \/ encoded_len(input) > 58
           \/ \E i \in DOMAIN input :
                 ~(\/ IsLetter(input[i]) \/ IsDigit(input[i]) \/ input[i] \in NumericOnly
                   \/ input[i] \in {" ", "'", "-"})
        THEN RejectionOnly
        ELSE Analysed]_vars

\* a request of 4 spaces and 59 bytes, of letters and spaces only, was rejected
\* while the cache held a translation
C10_Witness ==
    /\ pc = "done"
    /\ count(input, " ") = 4
    /\ encoded_len(input) = 59
    /\ \A i \in DOMAIN input : IsLetter(input[i]) \/ input[i] = " "
    /\ sent = <<Msg(1, MSG_REJECTED, <<>>, <<>>)>>
    /\ ~Made(log, "translate_ai")
    /\ cache = Preloaded.cache

(***************************************************************************)
(* Properties of the authentication (Spec).                                *)
(***************************************************************************)
\* the activation came from a sender (message) or a chat (control) that is not a key
\* of CONFIG.users, a missing one included
Unauthorized == act'.from_user \notin Users

\* nothing happened: no call of any collaborator, no message, the cache, the issued
\* tokens and the files as they were, no exception
NoEffect ==
    /\ log' = <<>>
    /\ sent' = <<>>
    /\ cache' = cache
    /\ issued' = issued
    /\ files' = files
    /\ hist' = hist
    /\ act'.raised = "None"

TranslateCalled ==
    \/ /\ act.kind = "message"
       /\ authorized(act.from_user)
       /\ act.request # <<>>
       /\ Head(act.request) # "/"
    \/ act.kind = "callback" /\ CommandOf(act.data) = CALLBACK_RETRY /\ act.request # <<>>

\* how the activation failed, "none" when it did not
FailureKind ==
    IF act.kind = "add"
    THEN CASE act.exc = "None" -> "none"
           [] Failed(log, "sync_login") -> "authentication"
           [] PullFailed -> "pull"
           [] PushFailed -> "push"
           [] Failed(log, "add_card") /\ sess.notetypes = <<>> -> "no_template"
           [] OTHER -> "unexpected"
    ELSE CASE act.raised # "None" -> "unexpected"
           [] Failed(log, "translate_ai") -> "analysis"
           [] Failed(log, "cache_get") -> "stale"
           [] TranslateCalled /\ RequestRejected(act.request) -> "validation"
           [] OTHER -> "none"

\* the texts the code has for the failures
FailureTexts ==
    [validation |-> MSG_REJECTED, analysis |-> MSG_TRANSLATION_FAILED, stale |-> MSG_STALE,
     authentication |-> MSG_LOGIN_FAILED, pull |-> MSG_DOWNLOAD_FAILED,
     push |-> MSG_UPLOAD_FAILED, unexpected |-> MSG_UNEXPECTED]

\* C12: every activation that ends in a failure sends exactly one message, to the
\* requester, and the message of each failure kind (validation, analysis,
\* authentication, pull, push, no template available, stale token, unexpected) is
\* different from the message of every other kind.
C12_OneDistinctMessagePerFailure ==
    (pc = "done" /\ FailureKind # "none") =>
        /\ Len(sent) = 1
        /\ sent[1].chat_id = act.chat_id
        /\ \A k \in DOMAIN FailureTexts :
              IF k = FailureKind
              THEN sent[1].text = FailureTexts[k]
              ELSE sent[1].text # FailureTexts[k]

\* C12, the part that holds in add_to_anki: a failed session sends exactly one
\* message, and the kinds other than the missing template have texts of their own.
C12_OneMessagePerFailedSession ==
    (pc = "done" /\ act.kind = "add" /\ FailureKind # "none") =>
        /\ Len(sent) = 1
        /\ sent[1].chat_id = act.chat_id
        /\ FailureKind # "no_template" =>
              \A k \in DOMAIN FailureTexts :
                 (k = FailureKind) <=> (sent[1].text = FailureTexts[k])

(***************************************************************************)
(* Properties of the cards of a session (SpecSession).                     *)
(***************************************************************************)
\* the note add_card makes of a (front, back) pair in the deck of the requester
NoteOf(chat_id, card) ==
    [deck |-> UserConfig(chat_id).anki_deck, front |-> card.front, back |-> card.back]

\* the add activation is over and nothing was raised
AddSucceeded == pc = "done" /\ act.kind = "add" /\ act.exc = "None"

\* C13: a successful add activation for a result of n senses has applied exactly 2n
\* mutations, in the order of the senses and the forward card of a sense before its
\* reverse card, all to the deck of the requester's profile; push was called once,
\* after the last mutation; and the success message reports 2n.
C13_TwoCardsPerSense ==
    AddSucceeded =>
        LET contexts == act.translation.contexts
            n == Len(contexts)
        IN /\ Len(sess.notes) = 2 * n
           /\ \A j \in 1..n :
                 /\ sess.notes[2 * j - 1] = NoteOf(act.chat_id, context_to_card(contexts[j]))
                 /\ sess.notes[2 * j] = NoteOf(act.chat_id, context_to_reverse_card(contexts[j]))
           /\ Cardinality(Calls(log, "add_card")) = 2 * n
           /\ ~Failed(log, "add_card")
           /\ Cardinality(Calls(log, "sync")) = 1
           /\ \A i \in Calls(log, "add_card"), k \in Calls(log, "sync") : i < k
           /\ sent = <<Msg(act.chat_id, MSG_ADDED, 2 * n, <<>>)>>

\* a result of two senses was added: four notes, and the message says 4
C13_Witness ==
    /\ AddSucceeded
    /\ Len(act.translation.contexts) = 2
    /\ Len(sess.notes) = 4
    /\ sess.notes[1] # sess.notes[2]
    /\ sent[1].detail = 4

(***************************************************************************)
(* Properties of the control payloads (SpecValidate).                      *)
(***************************************************************************)
\* the callback_data of the controls of the messages sent
Payloads == {sent[i].markup[b].callback_data : <<i, b>> \in
                {<<i, b>> \in (DOMAIN sent) \X (1..2) : b \in DOMAIN sent[i].markup}}

\* C14: every control payload translate renders is at most 64 bytes long in UTF-8:
\* the add payload of every token, and the retry payload of every request that
\* passes the validation (translate renders both for such a request).
C14_PayloadsFit ==
    /\ \A d \in Payloads : encoded_len(d) <= 64
    /\ (pc = "done" /\ ~RequestRejected(input) /\ Succeeded(log, "translate_ai")) =>
          Payloads = {AddPayload(act.translation_id), RetryPayload(input)}

\* a request of 58 bytes, some of them in characters of two bytes, was translated:
\* its retry payload has 64 bytes exactly, and the add payload carries the token
C14_Witness ==
    /\ pc = "done"
    /\ encoded_len(input) = 58
    /\ Len(input) < 58
    /\ encoded_len(RetryPayload(input)) = 64
    /\ RetryPayload(input) \in Payloads
    /\ AddPayload(act.translation_id) \in Payloads
    /\ Len(act.translation_id) = 36

(***************************************************************************)
(* Properties of the control payloads received (Spec).                     *)
(***************************************************************************)
\* the payload has no separator, or nothing before the first one, or nothing after it
Malformed(data) ==
    \/ \A i \in DOMAIN data : data[i] # ":"
    \/ LET first == CHOOSE i \in DOMAIN data :
                       data[i] = ":" /\ \A j \in 1..(i - 1) : data[j] # ":"
       IN first = 1 \/ first = Len(data)

\* C15: a control activation of an authorized requester whose payload has no
\* separator, an empty action or an empty argument is ignored: no message is sent,
\* translate and add_to_anki are not called (no validation, no analysis, no lookup),
\* and the cache is unchanged.  Only the acknowledgement of the control is made.
C15_MalformedIgnored ==
    [][(Activation /\ act'.kind = "callback" /\ authorized(act'.from_user)
                   /\ Malformed(act'.data)) =>
          /\ sent' = <<>>
          /\ log' = <<Call("answer_callback_query", TRUE)>>
          /\ cache' = cache
          /\ issued' = issued
          /\ hist' = hist
          /\ act'.raised = "None"]_vars

\* the payload "retry:", without argument, was ignored while a translation was cached
C15_Witness ==
    /\ pc = "done"
    /\ act.kind = "callback"
    /\ act.from_user = 1
    /\ act.data = CALLBACK_RETRY \o <<":">>
    /\ cache.currsize > 0
    /\ sent = <<>>
    /\ log = <<Call("answer_callback_query", TRUE)>>

(***************************************************************************)
(* SpecWorkers: two add_to_anki calls on the two worker threads, each with *)
(* its AnkiSession (anki_client.py lines 56-129), interleaved at the calls *)
(* that read or write the temp directory.  What the session does with the  *)
(* open collection (login, sync, add_card, sync) touches no file name and  *)
(* is one step.                                                            *)
(***************************************************************************)
IdleWorker == [pc |-> "idle", temp_path |-> 0, collection |-> "None"]

WorkerFrame == <<now, cache, issued, pc, act, sess, log, sent, input, hist>>

\* __enter__ lines 58-60: the temp path, named by 8 hex digits of a uuid4
WorkerTempPath(t) ==
    /\ th[t].pc = "idle"
    /\ \E p \in Paths : th' = [th EXCEPT ![t] = [IdleWorker EXCEPT !.pc = "exists", !.temp_path = p]]
    /\ UNCHANGED files
    /\ UNCHANGED WorkerFrame

\* __enter__ line 64: os.path.exists(self.temp_path)
WorkerExists(t) ==
    /\ th[t].pc = "exists"
    /\ th' = [th EXCEPT ![t].pc = IF th[t].temp_path \in files THEN "remove" ELSE "collection"]
    /\ UNCHANGED files
    /\ UNCHANGED WorkerFrame

\* __enter__ line 66: os.remove(self.temp_path), outside the try statement: when it
\* raises (the file is gone by now, or cannot be deleted) the session ends there
WorkerRemoveStale(t) ==
    /\ th[t].pc = "remove"
    /\ \E ok \in BOOLEAN :
          /\ ok => th[t].temp_path \in files
          /\ files' = IF ok THEN files \ {th[t].temp_path} ELSE files
          /\ th' = [th EXCEPT ![t] = IF ok THEN [@ EXCEPT !.pc = "collection"] ELSE IdleWorker]
    /\ UNCHANGED WorkerFrame

\* __enter__ line 69: Collection(self.temp_path) opens the file, creating it when
\* it is not there
WorkerCollection(t) ==
    /\ th[t].pc = "collection"
    /\ \E ok \in BOOLEAN, created \in BOOLEAN :
          /\ ok => created
          /\ files' = IF created THEN files \cup {th[t].temp_path} ELSE files
          /\ th' = [th EXCEPT ![t].pc = IF ok THEN "body" ELSE "cleanup",
                              ![t].collection = IF ok THEN "open" ELSE @]
    /\ UNCHANGED WorkerFrame

\* lines 72-99 and the with body (bot.py lines 169-185): whatever their outcome,
\* _cleanup comes next
WorkerBody(t) ==
    /\ th[t].pc = "body"
    /\ th' = [th EXCEPT ![t].pc = "cleanup"]
    /\ UNCHANGED files
    /\ UNCHANGED WorkerFrame

\* _cleanup lines 115-129: close the collection, delete the file if it exists; the
\* failure of either is logged.  The session is released.
WorkerCleanup(t) ==
    /\ th[t].pc = "cleanup"
    /\ \E ok \in BOOLEAN :
          files' = IF ok THEN files \ {th[t].temp_path} ELSE files
    /\ th' = [th EXCEPT ![t] = IdleWorker]
    /\ UNCHANGED WorkerFrame

InitWorkers ==
    /\ now = 0
    /\ cache = NewCache
    /\ issued = {}
    /\ files = {}
    /\ pc = "idle"
    /\ act = NoAct
    /\ sess = NoSess
    /\ log = <<>>
    /\ sent = <<>>
    /\ input = <<>>
    /\ th = [t \in Workers |-> IdleWorker]
    /\ hist = NoHist

NextWorkers ==
    \/ \E t \in Workers : WorkerTempPath(t)
    \/ \E t \in Workers : WorkerExists(t)
    \/ \E t \in Workers : WorkerRemoveStale(t)
    \/ \E t \in Workers : WorkerCollection(t)
    \/ \E t \in Workers : WorkerBody(t)
    \/ \E t \in Workers : WorkerCleanup(t)

SpecWorkers == InitWorkers /\ [][NextWorkers]_vars

(***************************************************************************)
(* Properties of concurrent sessions (SpecWorkers).                        *)
(***************************************************************************)
\* the session of worker t has its path and is not released yet
LiveSession(t) == th[t].pc # "idle"

\* the session of worker t has opened its working copy and is not released yet
HoldsWorkingCopy(t) == th[t].collection = "open" /\ th[t].temp_path \in files

\* C16: no two sessions that are live at the same time have the same working-copy
\* path; in particular the removal of a stale file in the acquire of one session
\* never deletes the working copy of another session that is not released yet.
C16_DistinctWorkingCopies ==
    /\ [](\A t, u \in Workers :
             (t # u /\ LiveSession(t) /\ LiveSession(u)) => th[t].temp_path # th[u].temp_path)
    /\ [][\A t, u \in Workers :
             (t # u /\ th[t].pc = "remove" /\ files' # files /\ th'[t] # th[t]) =>
                ~(HoldsWorkingCopy(u) /\ th[u].temp_path = th[t].temp_path)]_vars

\* C16, the second part alone: no stale-file removal deletes the working copy of a
\* session that is not released yet.
C16_StaleRemovalSparesLiveCopies ==
    [][\A t, u \in Workers :
          (t # u /\ th[t].pc = "remove" /\ files' # files /\ th'[t] # th[t]) =>
             ~(HoldsWorkingCopy(u) /\ th[u].temp_path = th[t].temp_path)]_vars

(***************************************************************************)
(* SpecAnalysis: one translation of the request ReqHund, for every answer  *)
(* of the analysis service: an error, text that is not the JSON asked for, *)
(* or up to MaxContexts contexts, well formed or not.  The request comes   *)
(* as a message or by the retry control, when the cache is empty or holds  *)
(* an earlier translation.                                                 *)
(***************************************************************************)
MaxContexts == 2

AnalysisContexts ==
    {CtxHund, CtxMarkup, CtxOnlyStripped, CtxBlank, CtxNoTranslations, CtxBlankTranslation}

Responses ==
    {CompletionError, CompletionMalformed}
    \cup {Completion(c) : c \in UNION {[1..n -> AnalysisContexts] : n \in 0..MaxContexts}}

InitAnalysis ==
    /\ now = 0
    /\ \E st \in {[cache |-> NewCache, issued |-> {}, hist |-> NoHist], Preloaded} :
          /\ cache = st.cache
          /\ issued = st.issued
          /\ hist = st.hist
    /\ files = {}
    /\ pc = "idle"
    /\ act = NoAct
    /\ sess = NoSess
    /\ log = <<>>
    /\ sent = <<>>
    /\ input \in Responses
    /\ th = <<>>

\* message_handler for the text ReqHund of the profiled user in the own chat; the
\* analysis answers `input`
MessageAnalysed ==
    /\ pc = "idle"
    /\ Finish(translate(1, ReqHund, input, Fresh, now),
              [NoAct EXCEPT !.kind = "message", !.from_user = 1, !.chat_id = 1,
                            !.request = ReqHund])

\* callback_query_handler for the payload "retry:Hund" from the profiled user's chat;
\* the analysis answers `input`
RetryAnalysed ==
    /\ pc = "idle"
    /\ Finish(translate(1, ReqHund, input,
                        [Fresh EXCEPT !.log = <<Call("answer_callback_query", TRUE)>>], now),
              [NoAct EXCEPT !.kind = "callback", !.from_user = 1, !.chat_id = 1,
                            !.data = RetryPayload(ReqHund), !.request = ReqHund])

NextAnalysis == MessageAnalysed \/ RetryAnalysed

SpecAnalysis == InitAnalysis /\ [][NextAnalysis]_vars

(***************************************************************************)
(* Properties of the analysis boundary (SpecAnalysis).                     *)
(***************************************************************************)
NonBlank(v) == strip(v) # <<>>

Clean(v) == \A i \in DOMAIN v : v[i] \notin SanitizedChars

\* the contexts of the results in the cache
CachedContexts ==
    UNION {{cache.data[k].contexts[i] : i \in DOMAIN cache.data[k].contexts} :
              k \in DOMAIN cache.data}

\* C17: every sense of every result stored in the cache has a text, type, label and
\* example and translations that are not empty after trimming, a translation list
\* that is not empty, and none of the characters * _ ` [ ] < > & in any field,
\* whatever the analysis answered (a field of stripped characters only included).
C17_CachedSensesWellFormed ==
    \A ctx \in CachedContexts :
        /\ \A v \in {ctx.text, ctx.type, ctx.label, ctx.example} : NonBlank(v) /\ Clean(v)
        /\ ctx.translations # <<>>
        /\ \A i \in DOMAIN ctx.translations :
              NonBlank(ctx.translations[i]) /\ Clean(ctx.translations[i])
        /\ \A v \in {ctx.article, ctx.plural, ctx.verb_forms.praeteritum,
                     ctx.verb_forms.perfekt} : Clean(v)

\* C17, the part that holds: no cached field has one of the stripped characters,
\* and the translation list is not empty.
C17_CachedSensesClean ==
    \A ctx \in CachedContexts :
        /\ \A v \in {ctx.text, ctx.type, ctx.label, ctx.example, ctx.article, ctx.plural,
                     ctx.verb_forms.praeteritum, ctx.verb_forms.perfekt} : Clean(v)
        /\ ctx.translations # <<>>
        /\ \A i \in DOMAIN ctx.translations : Clean(ctx.translations[i])

\* the analysis failed: the service raised, or its answer is not the JSON asked for,
\* or a field of it fails the validation
AnalysisFailed == input.kind # "json" \/ ~model_validate(input.contexts)

\* C20: when the analysis fails or returns an invalid response for a valid request,
\* translate sends one error message and stops: no token is generated, the cache is
\* unchanged, no add or retry control is rendered.  When it succeeds, exactly one
\* entry is inserted, under a new token, before the message that carries the add
\* control of that token is sent.
C20_AnalysisFailureStops ==
    [][Activation =>
         IF AnalysisFailed
         THEN /\ sent' = <<Msg(1, MSG_TRANSLATION_FAILED, <<>>, <<>>)>>
              /\ Cardinality(Calls(log', "send_message")) = 1
              /\ ~Made(log', "uuid4")
              /\ ~Made(log', "cache_setitem")
              /\ issued' = issued
              /\ cache' = cache
         ELSE /\ Cardinality(Calls(log', "cache_setitem")) = 1
              /\ DOMAIN cache'.data = DOMAIN cache.data \cup {act'.translation_id}
              /\ act'.translation_id \notin DOMAIN cache.data
              /\ \A k \in DOMAIN cache.data : cache'.data[k] = cache.data[k]
              /\ Len(sent') = 1
              /\ sent'[1].markup[1].callback_data = AddPayload(act'.translation_id)
              /\ sent'[1].markup[2].callback_data = RetryPayload(ReqHund)
              /\ \A i \in Calls(log', "cache_setitem"), j \in Calls(log', "send_message") :
                    i < j]_vars

\* the analysis answered a context without translations as the second of two, by the
\* retry control, while a translation was cached: one error message, the cache as
\* it was
C20_Witness ==
    /\ pc = "done"
    /\ act.kind = "callback"
    /\ input = Completion(<<CtxHund, CtxNoTranslations>>)
    /\ sent = <<Msg(1, MSG_TRANSLATION_FAILED, <<>>, <<>>)>>
    /\ cache = Preloaded.cache
    /\ issued = Preloaded.issued

(***************************************************************************)
(* Properties of the order of a session's operations (SpecSession).        *)
(***************************************************************************)
\* the operations on the peer and on the working copy, in the order of the protocol
Rank(name) ==
    CASE name = "sync_login" -> 1
      [] name = "sync_collection" -> 2
      [] name = "full_upload_or_download" -> 3
      [] name = "add_card" -> 4
      [] name = "sync" -> 5
      [] OTHER -> 0

Ops == {i \in DOMAIN log : Rank(log[i].call) > 0}

\* the call at i comes after a successful call of name
After(i, name) == \E j \in Calls(log, name) : j < i /\ log[j].ok

\* C18: in every session the operations are a prefix of authenticate, pull, full
\* download (optional), mutations, push, and release follows: authenticate, pull and
\* push are attempted at most once, pull only after authenticate succeeded, the full
\* download only when pull reported it required, mutations only after pull (and the
\* full download, if any) succeeded, push only after every requested mutation
\* succeeded, and nothing after release.
C18_ProtocolOrder ==
    /\ \A i, j \in Ops :
          i < j => /\ Rank(log[i].call) <= Rank(log[j].call)
                   /\ log[i].ok
                   /\ Rank(log[i].call) = Rank(log[j].call) => log[i].call = "add_card"
    /\ \A i \in Calls(log, "sync_collection") : After(i, "sync_login")
    /\ \A i \in Calls(log, "full_upload_or_download") :
          After(i, "sync_collection") /\ sess.required
    /\ \A i \in Calls(log, "add_card") :
          /\ After(i, "sync_collection")
          /\ sess.required => After(i, "full_upload_or_download")
    /\ \A i \in Calls(log, "sync") :
          /\ After(i, "sync_collection")
          /\ Cardinality({j \in Calls(log, "add_card") : j < i /\ log[j].ok})
                = 2 * Len(act.translation.contexts)
    /\ \A i \in Ops, k \in Calls(log, "_cleanup") : i < k
    /\ (SessionOver /\ Ops # {}) => Cardinality(Calls(log, "_cleanup")) = 1

\* a session went through all of it: authenticate, pull, full download, four
\* mutations, push, release
C18_Witness ==
    /\ pc = "done"
    /\ Succeeded(log, "sync_login")
    /\ Succeeded(log, "full_upload_or_download")
    /\ Cardinality(Calls(log, "add_card")) = 4
    /\ Succeeded(log, "sync")
    /\ Made(log, "_cleanup")

\* the note of the i-th mutation of the activation
ExpectedNote(i) ==
    LET context == act.translation.contexts[(i + 1) \div 2]
    IN NoteOf(act.chat_id, IF i % 2 = 1 THEN context_to_card(context)
                           ELSE context_to_reverse_card(context))

\* C19: when the k-th mutation of an add activation fails, the first k-1 mutations
\* stay applied to the working copy (nothing is rolled back), no later mutation and
\* no push is attempted, release still runs, and the requester gets a failure
\* message and never the success message.
C19_FailedMutationStops ==
    Failed(log, "add_card") =>
        LET k == Cardinality(Calls(log, "add_card"))
        IN /\ \A i \in Calls(log, "add_card") : ~log[i].ok => \A j \in Calls(log, "add_card") : j <= i
           /\ Len(sess.notes) = k - 1
           /\ \A i \in 1..(k - 1) : sess.notes[i] = ExpectedNote(i)
           /\ ~Made(log, "sync")
           /\ SessionOver => Cardinality(Calls(log, "_cleanup")) = 1
           /\ pc = "done" =>
                 /\ Len(sent) = 1
                 /\ sent[1].chat_id = act.chat_id
                 /\ sent[1].text # MSG_ADDED
                 /\ sent[1].text = MSG_UNEXPECTED
           /\ \A i \in DOMAIN sent : sent[i].text # MSG_ADDED

\* the third of four mutations failed: two notes are in the working copy, the
\* session was released and the failure reported
C19_Witness ==
    /\ pc = "done"
    /\ Cardinality(Calls(log, "add_card")) = 3
    /\ Failed(log, "add_card")
    /\ Len(sess.notes) = 2
    /\ Made(log, "_cleanup")
    /\ sent[1].text = MSG_UNEXPECTED

(***************************************************************************)
(* Properties of a failing release (SpecSession).                          *)
(***************************************************************************)
\* _cleanup failed at closing the collection or at deleting the file
ReleaseFailed == Failed(log, "close") \/ Failed(log, "os.remove")

\* the text for what the session did before its release, read from the calls made:
\* the first failure among authenticate, pull, mutate and push, or success
TextBeforeRelease ==
    CASE Failed(log, "sync_login") -> MSG_LOGIN_FAILED
      [] PullFailed -> MSG_DOWNLOAD_FAILED
      [] Failed(log, "add_card") -> MSG_UNEXPECTED
      [] Failed(log, "sync") -> MSG_UPLOAD_FAILED
      [] Failed(log, "Collection") -> MSG_UNEXPECTED
      [] OTHER -> MSG_ADDED

\* C21: a failure of release itself (closing the collection or deleting the file)
\* never raises out of _cleanup and never changes the outcome reported for the
\* session: a session that succeeded still reports success, and one that failed at
\* authenticate, pull, mutate or push still reports that same failure.
C21_ReleaseFailureKeepsOutcome ==
    /\ (ReleaseFailed /\ SessionOver) =>
          /\ act.raised = "None"
          /\ OutcomeText(act.exc) = TextBeforeRelease
          /\ (act.exc = "None") <=> Succeeded(log, "sync")
    /\ (ReleaseFailed /\ pc = "done") =>
          /\ OutcomeSent(TextBeforeRelease)
          /\ TextBeforeRelease = MSG_ADDED =>
                sent[1].detail = 2 * Len(act.translation.contexts)

\* both the close and the deletion failed in a session whose push had failed: the
\* push failure was reported; the file is still there
C21_Witness ==
    /\ pc = "done"
    /\ Failed(log, "close")
    /\ Failed(log, "os.remove")
    /\ Failed(log, "sync")
    /\ sent = <<Msg(act.chat_id, MSG_UPLOAD_FAILED, "AnkiUploadError", <<>>)>>
    /\ sess.temp_path \in files

(***************************************************************************)
(* Properties of the profile lookups (Spec).                               *)
(***************************************************************************)
\* the finished activation called translate or add_to_anki with act.chat_id
Invoked == pc = "done" /\ (TranslateCalled \/ Made(log, "add_to_anki"))

\* C22: every identifier with which translate or add_to_anki is invoked has a
\* profile in CONFIG.users, for every message and every control activation that
\* passes the authorization, a message whose sender differs from its chat included;
\* so the profile lookups of translate and add_to_anki never fail.
C22_InvokedWithProfile ==
    Invoked => (act.chat_id \in Users /\ act.raised = "None")

\* C22, the part that holds: the controls, and the messages whose sender is the
\* chat (a private chat), invoke translate and add_to_anki with a profiled id.
C22_PrivateChatInvokedWithProfile ==
    (Invoked /\ act.from_user = act.chat_id) => (act.chat_id \in Users /\ act.raised = "None")

(***************************************************************************)
(* Properties of the outcome message of a session (SpecSession).           *)
(***************************************************************************)
\* every message of the activation was sent after a _cleanup
SentAfterRelease ==
    \A j \in Calls(log, "send_message") : \E i \in Calls(log, "_cleanup") : i < j

\* the activation is over and has sent exactly one message, to the requester
OneOutcome ==
    /\ Cardinality(Calls(log, "send_message")) = 1
    /\ Len(sent) = 1
    /\ sent[1].chat_id = act.chat_id
    /\ sent[1].text = OutcomeText(act.exc)

\* C23: in every add activation that opens a session, the outcome message to the
\* requester (success or any failure) is sent only after the release of that
\* session has run, and exactly one outcome message is sent per activation.
C23_OutcomeAfterRelease ==
    (act.kind = "add" /\ Made(log, "__enter__")) =>
        /\ SentAfterRelease
        /\ pc = "done" => OneOutcome

\* C23, the part that holds: exactly one outcome message per activation, and it
\* follows the release unless the removal of a stale file failed in __enter__, in
\* which case no release runs at all.
C23_OutcomeAfterReleaseUnlessStaleRemovalFails ==
    (act.kind = "add" /\ Made(log, "__enter__")) =>
        /\ ~Failed(log, "os.remove(stale)") => SentAfterRelease
        /\ pc = "done" => OneOutcome

(***************************************************************************)
(* SpecControls: a request is translated, and the controls of the replies  *)
(* are activated.  The requests are the short ones and the ones at the     *)
(* byte limit; the controls are the ones translate has rendered: for each  *)
(* cached token the add payload, and the retry payload of its request.     *)
(***************************************************************************)
ControlRequests == {r \in Requests : Len(r) <= 2 \/ encoded_len(r) = MAX_REQUEST_BYTES}

InitControls ==
    /\ now = 0
    /\ cache = NewCache
    /\ issued = {}
    /\ hist = NoHist
    /\ files = {}
    /\ pc = "idle"
    /\ act = NoAct
    /\ sess = NoSess
    /\ log = <<>>
    /\ sent = <<>>
    /\ input \in ControlRequests
    /\ th = <<>>

\* the profiled user activates a control of a reply in the own chat
OnControl ==
    \E k \in DOMAIN hist.at :
       \E data \in {AddPayload(k), RetryPayload(hist.at[k].value.request)} :
          callback_query_handler(1, TRUE, data)

NextControls == OnRequest \/ OnControl \/ Return

SpecControls == InitControls /\ [][NextControls]_vars

(***************************************************************************)
(* Properties of the round trip of the payloads (SpecControls).            *)
(***************************************************************************)
\* the requests translate has rendered a retry control for, and the tokens it has
\* rendered an add control for
Rendered == {hist.at[k].value.request : k \in DOMAIN hist.at}

\* C24: for every request that passes the validation, parsing the retry payload
\* rendered for it gives the action retry and the original text as argument, and
\* activating it runs translate on that text, which passes the validation again;
\* parsing the rendered add payload gives the action add and the token that was
\* cached.
C24_PayloadRoundTrip ==
    /\ [](\A i \in DOMAIN sent : sent[i].markup # <<>> =>
             /\ CommandOf(sent[i].markup[1].callback_data) = CALLBACK_ADD_TO_ANKI
             /\ ArgOf(sent[i].markup[1].callback_data) = act.translation_id
             /\ act.translation_id \in DOMAIN cache.data
             /\ cache.data[act.translation_id] = sent[i].detail
             /\ CommandOf(sent[i].markup[2].callback_data) = CALLBACK_RETRY
             /\ ArgOf(sent[i].markup[2].callback_data) = act.request
             /\ ~RequestRejected(act.request))
    /\ [][(Activation /\ act'.kind = "callback") =>
             /\ \A r \in Rendered :
                   act'.data = RetryPayload(r) =>
                      /\ act'.request = r
                      /\ Made(log', "translate_ai")
                      /\ \A i \in DOMAIN sent' : sent'[i].text # MSG_REJECTED
             /\ \A k \in DOMAIN hist.at :
                   act'.data = AddPayload(k) =>
                      /\ Made(log', "cache_get")
                      /\ Succeeded(log', "cache_get") =>
                            (Made(log', "add_to_anki") /\ act'.translation = hist.at[k].value)]_vars

\* the retry control of a request of 58 bytes that ends in blanks was activated:
\* the same text was translated again
C24_Witness ==
    /\ pc = "done"
    /\ act.kind = "callback"
    /\ act.data = RetryPayload(input)
    /\ act.request = input
    /\ encoded_len(input) = 58
    /\ input[Len(input)] = " "
    /\ Succeeded(log, "translate_ai")
    /\ Len(sent) = 1
    /\ ArgOf(sent[1].markup[2].callback_data) = input

====
